---- MODULE Spec2Model ----
(***************************************************************************)
(* Call-center analytics chat: the verified-query matcher, the Cortex      *)
(* Analyst response interpreter and the chat orchestrator of               *)
(* streamlit_app.py.                                                       *)
(*                                                                         *)
(* Strings are sequences of chunks.  A chunk is either one whitespace      *)
(* character (WS) or a word; no word of the alphabet is a substring of a   *)
(* concatenation of other chunks, so Python's `kw in s` for a keyword kw   *)
(* is "some chunk of s equals kw".                                         *)
(***************************************************************************)
EXTENDS Integers, Sequences, FiniteSets, TLC

VARIABLES
    semantic_model,        \* what read_semantic_model_from_stage() returns, parsed
    chat_history,          \* st.session_state.chat_history
    conversation_context,  \* st.session_state.conversation_context
    clock,                 \* minutes shown by datetime.now()
    op,                    \* the handler that ran last
    user_input,            \* the text given to the last handler
    verified_sql,          \* what try_match_verified_query returned in it
    resp,                  \* the transport response of its API request
    response,              \* what query_cortex_analyst_rest_api returned in it
    requests,              \* the message lists it sent to the analyst service
    executed,              \* the SQL strings it gave to execute_sql_query
    exception,             \* the exception that left it, or "none"
    pipeline,              \* pipeline.py: where its main block is, what it ran
    upload                 \* the upload section's session state and last handler

\* The variables of the dashboard application
app_vars == <<semantic_model, chat_history, conversation_context, clock, op,
              user_input, verified_sql, resp, response, requests, executed,
              exception>>

vars == <<app_vars, pipeline, upload>>

-----------------------------------------------------------------------------
(* Bounds of the model *)

MaxCatalog == 2     \* entries in a verified_queries list
MaxBlocks == 2      \* content blocks in an analyst reply
MaxHistory == 2     \* a submission is accepted while the transcript is this short
MaxClock == 1       \* minutes the clock can advance
MaxExit == 2        \* the largest exit status a pipeline script ends with

-----------------------------------------------------------------------------
(* Python strings *)

WS == " "

\* str.lower() on one chunk
LowerChar(c) ==
    CASE c = "FCR" -> "fcr"
      [] c = "Fcr" -> "fcr"
      [] c = "Sentiment" -> "sentiment"
      [] c = "Issue" -> "issue"
      [] c = "WAV" -> "wav"
      [] OTHER -> c

lower(s) == [i \in 1..Len(s) |-> LowerChar(s[i])]

RECURSIVE lstrip(_)
lstrip(s) == IF s # <<>> /\ Head(s) = WS THEN lstrip(Tail(s)) ELSE s

RECURSIVE rstrip(_)
rstrip(s) ==
    IF s # <<>> /\ s[Len(s)] = WS THEN rstrip(SubSeq(s, 1, Len(s) - 1)) ELSE s

\* str.strip()
strip(s) == rstrip(lstrip(s))

\* kw in s, for a keyword kw (one chunk)
In(kw, s) == \E i \in 1..Len(s) : s[i] = kw

\* None, and a value that is not None
None == [is_none |-> TRUE, val |-> <<>>]
Some(v) == [is_none |-> FALSE, val |-> v]

\* `if x:` for x a string or None
Truthy(x) == ~x.is_none /\ x.val # <<>>

-----------------------------------------------------------------------------
(* The semantic model and its verified queries *)

SENTINEL_NAME == "sentiment_by_issue_type"

\* One entry of verified_queries; a key the YAML omits reads as the default
\* vq.get gives it ('' or []).
Names == {SENTINEL_NAME, "fcr_rate"}
Questions == {<<>>, <<"FCR", WS>>, <<"Sentiment", WS, "issue">>}
SynonymLists == {<<>>, << <<WS, "Fcr">> >>, << <<"issue", WS, "Sentiment">> >>}
Sqls == {<<"SELECT 1">>, <<WS, "SELECT 2", WS>>, <<WS>>}

Entries == [name : Names, question : Questions, synonyms : SynonymLists, sql : Sqls]

SeqsUpTo(S, n) == UNION {[1..k -> S] : k \in 0..n}

Catalogs == SeqsUpTo(Entries, MaxCatalog)

\* read_semantic_model_from_stage() followed by yaml.safe_load: the document is
\* missing or empty (None), is no YAML mapping, or holds verified_queries.
Missing == [status |-> "missing", verified_queries |-> <<>>]
Unparseable == [status |-> "unparseable", verified_queries |-> <<>>]
Loaded(vqs) == [status |-> "loaded", verified_queries |-> vqs]

SemanticModels == {Missing, Unparseable} \cup {Loaded(c) : c \in Catalogs}

\* Texts a user may type
Texts ==
    { <<>>, <<WS, "FCR", WS>>, <<"Sentiment", WS, "Issue">>, <<"issue">>,
      <<"Issue", WS, "sentiment">>, <<"fcr", WS, "Sentiment", WS, "issue">> }

-----------------------------------------------------------------------------
(* try_match_verified_query *)

\* The comparison without lower-casing the catalog's question
QuestionMatches_CaseSensitive(vq, user_lower) ==
    LET question == strip(vq.question)
    IN  question # <<>> /\ question = user_lower

\* "Check main question"
QuestionMatches(vq, user_lower) ==
    LET question == strip(lower(vq.question))
    IN  question # <<>> /\ question = user_lower

\* The comparison without trimming the synonym
SynonymMatches_Untrimmed(vq, user_lower) ==
    \E i \in 1..Len(vq.synonyms) : lower(vq.synonyms[i]) = user_lower

\* "Check synonyms"
SynonymMatches(vq, user_lower) ==
    \E i \in 1..Len(vq.synonyms) : strip(lower(vq.synonyms[i])) = user_lower

\* The key phrases without the test of the entry's name
FuzzyMatches_AnyEntry(vq, user_lower) ==
    In("sentiment", user_lower) /\ In("issue", user_lower)

\* "Fuzzy matching for key phrases"
FuzzyMatches(vq, user_lower) ==
    /\ In("sentiment", user_lower)
    /\ In("issue", user_lower)
    /\ vq.name = SENTINEL_NAME

\* One pass of the loop body: does this entry return?
EntryReturns(vq, user_lower) ==
    \/ QuestionMatches(vq, user_lower)
    \/ SynonymMatches(vq, user_lower)
    \/ FuzzyMatches(vq, user_lower)

\* The for loop over verified_queries, from entry i on
RECURSIVE ScanVerifiedQueries(_, _, _)
ScanVerifiedQueries(vqs, user_lower, i) ==
    IF i > Len(vqs) THEN None
    ELSE IF EntryReturns(vqs[i], user_lower) THEN Some(strip(vqs[i].sql))
    ELSE ScanVerifiedQueries(vqs, user_lower, i + 1)

\* How a try body ends: it returns a value, or an exception leaves it
Returns(v) == [raised |-> FALSE, value |-> v]
Raises == [raised |-> TRUE, value |-> None]

\* The try body: no document returns None at once; a document that is no
\* YAML mapping makes yaml.safe_load or yaml_data.get raise
MatchBody(text, model) ==
    IF model.status = "missing" THEN Returns(None)
    ELSE IF model.status = "unparseable" THEN Raises
    ELSE Returns(ScanVerifiedQueries(model.verified_queries, strip(lower(text)), 1))

\* What the caller holds when the exception leaves the function: no value
Escaped == [is_none |-> TRUE, val |-> <<>>, escaped |-> TRUE]

\* The function without its except clause
try_match_verified_query_NoExcept(text, model) ==
    LET body == MatchBody(text, model)
    IN  IF body.raised THEN Escaped ELSE body.value

\* `except Exception: return None`
try_match_verified_query(text, model) ==
    LET body == MatchBody(text, model)
    IN  IF body.raised THEN None ELSE body.value

-----------------------------------------------------------------------------
(* The analyst service's transport response *)

HTTP_OK == 200
Statuses == {HTTP_OK, 500}

\* f"{status_code}"
StatusStr(n) == IF n = HTTP_OK THEN "200" ELSE "500"

\* One block of message.content; a key the block omits reads as the default
\* block.get gives it.  iterable tells whether the value under "suggestions"
\* is a list: JSON may hold a number there, which Python cannot iterate.
Block(type, text, statement, suggestions) ==
    [type |-> type, text |-> text, statement |-> statement,
     suggestions |-> suggestions, iterable |-> TRUE]
TextBlock(t) == Block("text", t, <<>>, <<>>)
SqlBlock(q) == Block("sql", <<>>, q, <<>>)
SuggestionsBlock(l) == Block("suggestions", <<>>, <<>>, l)
ChartBlock == Block("chart", <<>>, <<>>, <<>>)
\* {"type": "suggestions", "suggestions": 1}
NumberAsSuggestions ==
    [Block("suggestions", <<>>, <<>>, <<"1">>) EXCEPT !.iterable = FALSE]

Blocks ==
    { TextBlock(<<"Here is the answer">>), TextBlock(<<"Which year?">>),
      SqlBlock(<<"SELECT 3">>), SqlBlock(<<"SELECT 4">>),
      SuggestionsBlock(<<"a", "b">>), SuggestionsBlock(<<"c">>),
      NumberAsSuggestions, ChartBlock }

\* response_data["message"]: text is what an f-string shows of it; is_dict
\* tells whether it is a mapping
Message(text, has_content, is_list, content) ==
    [text |-> text, has_content |-> has_content, is_list |-> is_list,
     content |-> content, is_dict |-> TRUE]

\* "message": null
NullMessage == [Message(<<"None">>, FALSE, FALSE, <<>>) EXCEPT !.is_dict = FALSE]

\* response_data: a dict, another JSON value, or text json.loads rejects
Data(type, has_message, message, metadata) ==
    [type |-> type, has_message |-> has_message, message |-> message,
     response_metadata |-> metadata, warnings |-> <<>>]

NoMessage == Message(<<>>, FALSE, FALSE, <<>>)
Reply(content) == Data("dict", TRUE, Message(<<"{...}">>, TRUE, TRUE, content), <<>>)

Datas ==
    { Data("invalid", FALSE, NoMessage, <<>>),
      Data("list", FALSE, NoMessage, <<>>),
      Data("dict", FALSE, NoMessage, <<>>),
      Data("dict", TRUE, Message(<<"bad request">>, FALSE, FALSE, <<>>), <<>>),
      Data("dict", TRUE, NullMessage, <<>>),
      Data("dict", TRUE, Message(<<"{...}">>, TRUE, FALSE, <<>>), <<>>) }
    \cup { Data("dict", TRUE, Message(<<"{...}">>, TRUE, TRUE, c), m) :
             c \in SeqsUpTo(Blocks, MaxBlocks), m \in {<<>>, <<"request_id">>} }

\* resp["content"]: a dict, a str (with what json.loads makes of it) or neither
DictContent(d) == [type |-> "dict", text |-> <<>>, parsed |-> d]
StrContent(t, d) == [type |-> "str", text |-> t, parsed |-> d]
NoContent == [type |-> "none", text |-> <<>>, parsed |-> Data("none", FALSE, NoMessage, <<>>)]

Contents ==
    {DictContent(d) : d \in {x \in Datas : x.type = "dict"}}
    \cup {StrContent(<<"body">>, d) : d \in Datas}
    \cup {NoContent}

\* What _snowflake.send_snow_api_request does: it raises (a timeout, no
\* connection) or returns a response.
Raised == [raised |-> TRUE, status |-> 0, content |-> NoContent]
Returned(status, content) == [raised |-> FALSE, status |-> status, content |-> content]

ApiResponses == {Raised} \cup {Returned(n, c) : n \in Statuses, c \in Contents}

-----------------------------------------------------------------------------
(* query_cortex_analyst_rest_api *)

Error(msg) == [error |-> msg]

\* The messages of a request that leaves the history out
BuildMessages_QuestionOnly(question, conversation_history) ==
    << [role |-> "user", content |-> << [type |-> "text", text |-> question] >>] >>

\* The messages of the request body: the history, then the question
BuildMessages(question, conversation_history) ==
    conversation_history \o
        << [role |-> "user", content |-> << [type |-> "text", text |-> question] >>] >>

\* The loop over the content blocks, a later block added to an earlier one
RECURSIVE ParseBlocks_Concatenating(_, _, _)
ParseBlocks_Concatenating(result, content, i) ==
    IF i > Len(content) THEN result
    ELSE LET block == content[i]
             next == CASE block.type = "text" ->
                            [result EXCEPT !.text = @ \o block.text]
                       [] block.type = "sql" ->
                            [result EXCEPT !.sql = @ \o block.statement]
                       [] block.type = "suggestions" ->
                            [result EXCEPT !.suggestions = @ \o block.suggestions,
                                           !.iterable = block.iterable]
                       [] OTHER -> result
         IN  ParseBlocks_Concatenating(next, content, i + 1)

\* The loop over the content blocks: a later block overwrites an earlier one
RECURSIVE ParseBlocks(_, _, _)
ParseBlocks(result, content, i) ==
    IF i > Len(content) THEN result
    ELSE LET block == content[i]
             next == CASE block.type = "text" ->
                            [result EXCEPT !.text = block.text]
                       [] block.type = "sql" ->
                            [result EXCEPT !.sql = block.statement]
                       [] block.type = "suggestions" ->
                            [result EXCEPT !.suggestions = block.suggestions,
                                           !.iterable = block.iterable]
                       [] OTHER -> result
         IN  ParseBlocks(next, content, i + 1)

\* The branch for status 200, as far as it is inside the outer try:
\* `"content" in response_data["message"]` raises TypeError when the message
\* is null
SuccessBody(content) ==
    LET response_data == content.parsed IN
    IF content.type = "str" /\ response_data.type = "invalid"
    THEN Returns(Error(<<"Failed to parse JSON response: ", "<exception>">>))
    ELSE IF content.type = "none" \/ response_data.type # "dict"
    THEN Returns(Error(<<"Unexpected response format: expected dict, got ", "<type>">>))
    ELSE IF response_data.has_message /\ ~response_data.message.is_dict
    THEN Raises
    ELSE IF response_data.has_message /\ response_data.message.has_content
    THEN IF ~response_data.message.is_list
         THEN Returns(Error(<<"Unexpected content format: expected list, got ", "<type>">>))
         ELSE Returns(ParseBlocks([text |-> <<>>, sql |-> <<>>, suggestions |-> <<>>,
                                   iterable |-> TRUE,
                                   response_metadata |-> response_data.response_metadata,
                                   warnings |-> response_data.warnings],
                                  response_data.message.content, 1))
    ELSE Returns(Error(<<"Invalid response format from Cortex Analyst">>))

\* What the caller holds when an exception leaves the function: no result
NoResult == [escaped |-> TRUE]

\* The branch for status 200 without the outer except clause
InterpretSuccess_NoExcept(content) ==
    LET body == SuccessBody(content)
    IN  IF body.raised THEN NoResult ELSE body.value

\* The branch for status 200, with `except Exception as e` around it
InterpretSuccess(content) ==
    LET body == SuccessBody(content)
    IN  IF body.raised
        THEN Error(<<"Unexpected error calling Cortex Analyst API: ", "<exception>">>)
        ELSE body.value

\* The branch for any other status
InterpretFailure(status, content) ==
    LET error_message == <<"API request failed with status ", StatusStr(status)>>
        details ==
            IF content.type = "dict" /\ content.parsed.has_message
            THEN <<": ">> \o content.parsed.message.text
            ELSE IF content.type = "str" THEN <<": ">> \o content.text
            ELSE <<>>
    IN  Error(error_message \o details)

\* The reply parsed whatever its status
Interpret_AnyStatus(r) ==
    IF r.raised
    THEN Error(<<"Unexpected error calling Cortex Analyst API: ", "<exception>">>)
    ELSE InterpretSuccess(r.content)

Interpret(r) ==
    IF r.raised
    THEN Error(<<"Unexpected error calling Cortex Analyst API: ", "<exception>">>)
    ELSE IF r.status = HTTP_OK THEN InterpretSuccess(r.content)
    ELSE InterpretFailure(r.status, r.content)

\* The request is sent only when the semantic model could be read
SendsRequest(model) == model.status # "missing"

query_cortex_analyst_rest_api(model, r) ==
    IF ~SendsRequest(model)
    THEN Error(<<"Could not read semantic model YAML from stage.">>)
    ELSE Interpret(r)

\* 'error' in response, and response.get(key) on a result without an error
IsError(result) == "error" \in DOMAIN result

-----------------------------------------------------------------------------
(* execute_sql_query *)

\* A pandas DataFrame: its shape, whether its last column is numeric, and
\* what df.iloc[0, 0] shows
DataFrame(rows, cols, numeric, first) ==
    [rows |-> rows, cols |-> cols, numeric |-> numeric, first |-> first]

\* pd.DataFrame()
EmptyDataFrame == DataFrame(0, 0, FALSE, "")

DataFrames ==
    { DataFrame(0, 2, TRUE, ""), DataFrame(1, 1, TRUE, "42"),
      DataFrame(2, 2, TRUE, "billing") }

\* What running a query does: no session, session.sql raises, or a table
Ran(df) == [fault |-> "none", df |-> df]
SqlError == [fault |-> "sql_error", df |-> EmptyDataFrame]
NoSession == [fault |-> "no_session", df |-> EmptyDataFrame]
ExecOutcomes == {Ran(df) : df \in DataFrames} \cup {SqlError, NoSession}

execute_sql_query(outcome) ==
    IF outcome.fault # "none" THEN EmptyDataFrame ELSE outcome.df

-----------------------------------------------------------------------------
(* The transcript and the conversation context *)

\* The user turn put in front of the transcript
add_user_message_Prepending(history, content, t) ==
    <<[role |-> "user", content |-> content, timestamp |-> t]>> \o history

add_user_message(history, content, t) ==
    Append(history, [role |-> "user", content |-> content, timestamp |-> t])

\* The turn stored under the role of add_user_message
add_assistant_message_AsUser(history, content, t) ==
    Append(history, [role |-> "user", content |-> content, timestamp |-> t])

add_assistant_message(history, content, t) ==
    Append(history, [role |-> "assistant", content |-> content, timestamp |-> t])

\* message_data, with the chart when one was built
DataMessage(content, df, sql, chart, t) ==
    IF chart = "none"
    THEN [role |-> "assistant", content |-> content, data |-> df, sql |-> sql,
          timestamp |-> t]
    ELSE [role |-> "assistant", content |-> content, data |-> df, sql |-> sql,
          timestamp |-> t, chart |-> chart]

\* The two blocks in the other order
update_conversation_context_AnalystFirst(context, text, result) ==
    context \o
    << [role |-> "analyst",
        content |-> << [type |-> "text", text |-> result.text],
                       [type |-> "sql", statement |-> result.sql] >>],
       [role |-> "user", content |-> << [type |-> "text", text |-> text] >>] >>

\* The user block alone
update_conversation_context_UserOnly(context, text, result) ==
    context \o
    << [role |-> "user", content |-> << [type |-> "text", text |-> text] >>] >>

update_conversation_context(context, text, result) ==
    context \o
    << [role |-> "user", content |-> << [type |-> "text", text |-> text] >>],
       [role |-> "analyst",
        content |-> << [type |-> "text", text |-> result.text],
                       [type |-> "sql", statement |-> result.sql] >>] >>

NL == "\n"

\* "\n".join([f"* {s}" for s in suggestions])
RECURSIVE JoinBullets(_)
JoinBullets(suggestions) ==
    IF suggestions = <<>> THEN <<>>
    ELSE IF Len(suggestions) = 1 THEN <<"* ", suggestions[1]>>
    ELSE <<"* ", suggestions[1], NL>> \o JoinBullets(Tail(suggestions))

\* The header line and the first bullet only
SuggestionsContent_FirstOnly(suggestions) ==
    <<"Suggestions:", NL, "* ", suggestions[1]>>

\* The header line, then the bullets
SuggestionsContent(suggestions) == <<"Suggestions:", NL>> \o JoinBullets(suggestions)

-----------------------------------------------------------------------------
(* show_conversation_stats: the export *)

\* 'You' if msg['role'] == 'user' else 'Assistant'
ExportLabel(role) == IF role = "user" THEN "You" ELSE "Assistant"

\* f"[{msg.get('timestamp', 'N/A')}] {label}: {msg['content']}"
ExportEntry(msg) ==
    <<"[", ToString(msg.timestamp), "] ", ExportLabel(msg.role), ": ">> \o msg.content

\* "\n".join([... for msg in st.session_state.chat_history])
RECURSIVE conversation_text(_)
conversation_text(history) ==
    IF history = <<>> THEN <<>>
    ELSE IF Len(history) = 1 THEN ExportEntry(history[1])
    ELSE ExportEntry(history[1]) \o <<NL>> \o conversation_text(Tail(history))

-----------------------------------------------------------------------------
(* process_user_message *)

\* No request was sent, and query_cortex_analyst_rest_api was not called
NotSent == [raised |-> FALSE, status |-> 0, content |-> NoContent]
NotCalled == [not_called |-> TRUE]

\* The chart of a verified answer
VerifiedChart(text, df, plot_raises) ==
    IF df.cols >= 2 /\ df.numeric /\ ~plot_raises
    THEN IF In("sentiment", lower(text)) THEN "sentiment_bar" ELSE "bar"
    ELSE "none"

\* The chart of an analyst answer
AnalystChart(df, plot_raises) ==
    IF df.cols = 2 /\ df.rows > 1 /\ df.numeric /\ ~plot_raises
    THEN "bar" ELSE "none"

\* The verified branch feeding the context as the analyst branch does
VerifiedAnswer_UpdatesContext(s, text, sql, outcome, plot_raises, t) ==
    LET df == execute_sql_query(outcome) IN
    [chat_history |->
        Append(s.chat_history,
               DataMessage(<<"Using verified query - here's your data:">>, df, sql,
                           VerifiedChart(text, df, plot_raises), t)),
     conversation_context |->
        update_conversation_context(s.conversation_context, text,
                                    [text |-> <<>>, sql |-> sql])]

\* The verified branch, when it returns: one data turn
VerifiedAnswer(s, text, sql, outcome, plot_raises, t) ==
    LET df == execute_sql_query(outcome) IN
    [chat_history |->
        Append(s.chat_history,
               DataMessage(<<"Using verified query - here's your data:">>, df, sql,
                           VerifiedChart(text, df, plot_raises), t)),
     conversation_context |-> s.conversation_context]

\* "\n".join([... for s in response['suggestions']]) raises TypeError when
\* the value is truthy and no list
JoinRaises(result) ==
    ~IsError(result) /\ result.suggestions # <<>> /\ ~result.iterable

\* The turns after the primary one; nothing is appended when the join raises
AddSuggestions(s, result, t) ==
    IF result.suggestions # <<>> /\ result.iterable
    THEN [s EXCEPT !.chat_history =
            add_assistant_message(@, SuggestionsContent(result.suggestions), t)]
    ELSE s

\* "Handle successful response with SQL"
AnswerWithSql(s, text, result, outcome, plot_raises, t) ==
    LET df == execute_sql_query(outcome)
        content == IF df.rows = 1 /\ df.cols = 1
                   THEN <<"Result: **", df.first, "**">>
                   ELSE <<"Here's your data:">>
    IN  IF df.rows > 0
        THEN [chat_history |->
                Append(s.chat_history,
                       DataMessage(content, df, result.sql,
                                   AnalystChart(df, plot_raises), t)),
              conversation_context |->
                update_conversation_context(s.conversation_context, text, result)]
        ELSE [s EXCEPT !.chat_history =
                add_assistant_message(@, <<"No data found. Try rephrasing your question.">>, t)]

\* "No SQL generated": result always has a text key, so the default of
\* response.get('text', ...) is never taken
AnswerWithoutSql(s, result, t) ==
    [s EXCEPT !.chat_history = add_assistant_message(@, result.text, t)]

\* The error branch without its return: the no-SQL branch runs after it,
\* with the default of response.get('text', ...)
AnalystAnswer_NoReturn(s, text, result, outcome, plot_raises, t) ==
    IF IsError(result)
    THEN [s EXCEPT !.chat_history =
            add_assistant_message(
                add_assistant_message(@, <<"Error: ">> \o result.error, t),
                <<"Couldn't generate a query. Try being more specific.">>, t)]
    ELSE AddSuggestions(
            IF result.sql # <<>>
            THEN AnswerWithSql(s, text, result, outcome, plot_raises, t)
            ELSE AnswerWithoutSql(s, result, t),
            result, t)

\* "Fallback to Cortex Analyst API", from the call's result on
AnalystAnswer(s, text, result, outcome, plot_raises, t) ==
    IF IsError(result)
    THEN [s EXCEPT !.chat_history =
            add_assistant_message(@, <<"Error: ">> \o result.error, t)]
    ELSE AddSuggestions(
            IF result.sql # <<>>
            THEN AnswerWithSql(s, text, result, outcome, plot_raises, t)
            ELSE AnswerWithoutSql(s, result, t),
            result, t)

-----------------------------------------------------------------------------
(* show_file_upload_section and its helpers: the audio upload flow *)

\* The files the user may put in the uploader (type=['mp3', 'wav']): a name
\* and a size in MB
FileNames == { <<"call", ".", "mp3">>, <<"visit", ".", "WAV">> }
FileSizes == {1, 250}
UploadedFiles == [name : FileNames, size_mb : FileSizes]

\* The uploader holding no file (uploaded_file is None)
NoFile == [name |-> <<>>, size_mb |-> 0]

\* date.today().strftime("%Y-%m-%d")
Days == {"2025-01-01", "2025-01-02"}

max_size_mb == 200
allowed_formats == { <<"mp3">>, <<"wav">> }

\* s.split('.')[-1]
RECURSIVE LastSegment(_)
LastSegment(s) == IF In(".", s) THEN LastSegment(Tail(s)) ELSE s

\* uploaded_file.name.lower().split('.')[-1]
file_extension(uploaded_file) == LastSegment(lower(uploaded_file.name))

\* The format and size validations let the run go on to the buttons
Validated(uploaded_file) ==
    /\ file_extension(uploaded_file) \in allowed_formats
    /\ ~(uploaded_file.size_mb > max_size_mb)

\* What upload_audio_file_to_stage hands back: the bare False of line 297,
\* or a (success, path) tuple
BareFalse == [is_pair |-> FALSE, success |-> FALSE, file_path |-> None]
Pair(success, file_path) ==
    [is_pair |-> TRUE, success |-> success, file_path |-> file_path]

\* No call of upload_audio_file_to_stage in the last handler
NotUploading == [is_pair |-> TRUE, success |-> FALSE, file_path |-> None]

\* What can happen inside upload_audio_file_to_stage: no session, put_stream
\* raises, the stage refresh raises (a warning only), all goes well
UploadOutcomes == {"no_session", "put_raises", "refresh_raises", "uploaded"}

upload_audio_file_to_stage(uploaded_file, today, outcome) ==
    CASE outcome = "no_session" -> BareFalse
      [] outcome = "put_raises" -> Pair(FALSE, None)
      [] OTHER -> Pair(TRUE, Some(<<today, "/">> \o uploaded_file.name))

\* What can happen inside call_audio_processing_procedure
ProcOutcomes == {"no_session", "call_raises", "called"}

\* proc_success of call_audio_processing_procedure
call_audio_processing_procedure(file_path, outcome) == outcome = "called"

\* st.session_state of the upload section after lines 374-385, with the file
\* in the uploader and the trace of the last handler: which one it was, what
\* the upload and the procedure returned in it, the exception that left it
NoUpload ==
    [uploaded_file |-> NoFile,
     uploaded_file_path |-> None,
     uploaded_file_name |-> None,
     upload_completed |-> FALSE,
     audio_processed |-> FALSE,
     processed_file_name |-> None,
     handler |-> "none",
     returned |-> NotUploading,
     proc_success |-> FALSE,
     exception |-> "none"]

\* Lines 398-401, run on every rerun: a file of another name than the one
\* uploaded resets upload_completed
NewFileSelected(u, uploaded_file) ==
    IF uploaded_file # NoFile /\ u.uploaded_file_name # Some(uploaded_file.name)
    THEN [u EXCEPT !.upload_completed = FALSE]
    ELSE u

\* The trace of a handler that calls neither helper and raises nothing
Quiet(u, handler) ==
    [u EXCEPT !.handler = handler, !.returned = NotUploading,
              !.proc_success = FALSE, !.exception = "none"]

\* The user puts a file in the uploader, or takes it out
ChooseFile ==
    /\ \E uploaded_file \in UploadedFiles \cup {NoFile} :
          /\ uploaded_file # upload.uploaded_file
          /\ upload' = [Quiet(NewFileSelected(upload, uploaded_file), "choose")
                            EXCEPT !.uploaded_file = uploaded_file]
    /\ UNCHANGED <<app_vars, pipeline>>

\* "Upload to Stage" pressed: the button is rendered for a validated file.
\* A result that is no pair makes the unpacking at line 439 raise.
UploadToStage ==
    /\ upload.uploaded_file # NoFile
    /\ Validated(upload.uploaded_file)
    /\ \E today \in Days, outcome \in UploadOutcomes :
          LET uploaded_file == upload.uploaded_file
              u == Quiet(NewFileSelected(upload, uploaded_file), "upload")
              result == upload_audio_file_to_stage(uploaded_file, today, outcome)
          IN  upload' =
                IF ~result.is_pair
                THEN [u EXCEPT !.returned = result, !.exception = "TypeError"]
                ELSE IF result.success
                THEN [u EXCEPT !.returned = result,
                               !.uploaded_file_path = result.file_path,
                               !.uploaded_file_name = Some(uploaded_file.name),
                               !.upload_completed = TRUE]
                ELSE [u EXCEPT !.returned = result,
                               !.upload_completed = FALSE]
    /\ UNCHANGED <<app_vars, pipeline>>

\* The condition of line 456, reached when no validation returned early
ProcessOffered(u) ==
    /\ u.uploaded_file = NoFile \/ Validated(u.uploaded_file)
    /\ Truthy(u.uploaded_file_path)
    /\ Truthy(u.uploaded_file_name)
    /\ u.upload_completed

\* Process that keeps the upload after a success
ProcessAudioFile_KeepingUpload ==
    /\ ProcessOffered(NewFileSelected(upload, upload.uploaded_file))
    /\ \E outcome \in ProcOutcomes :
          LET u == Quiet(NewFileSelected(upload, upload.uploaded_file), "process")
              proc_success ==
                  call_audio_processing_procedure(u.uploaded_file_path, outcome)
          IN  upload' =
                IF proc_success
                THEN [u EXCEPT !.proc_success = TRUE,
                               !.audio_processed = TRUE,
                               !.processed_file_name = u.uploaded_file_name]
                ELSE u
    /\ UNCHANGED <<app_vars, pipeline>>

\* "Process Audio File" pressed
ProcessAudioFile ==
    /\ ProcessOffered(NewFileSelected(upload, upload.uploaded_file))
    /\ \E outcome \in ProcOutcomes :
          LET u == Quiet(NewFileSelected(upload, upload.uploaded_file), "process")
              proc_success ==
                  call_audio_processing_procedure(u.uploaded_file_path, outcome)
          IN  upload' =
                IF proc_success
                THEN [u EXCEPT !.proc_success = TRUE,
                               !.audio_processed = TRUE,
                               !.processed_file_name = u.uploaded_file_name,
                               !.uploaded_file_path = None,
                               !.uploaded_file_name = None,
                               !.upload_completed = FALSE]
                ELSE u
    /\ UNCHANGED <<app_vars, pipeline>>

\* A navigation button or "Refresh List" pressed: the processed status is
\* cleared
ClearProcessed ==
    /\ upload' = [Quiet(NewFileSelected(upload, upload.uploaded_file), "navigate")
                      EXCEPT !.audio_processed = FALSE,
                             !.processed_file_name = None]
    /\ UNCHANGED <<app_vars, pipeline>>

-----------------------------------------------------------------------------
(* pipeline.py *)

\* The run_script calls of the main block, in the order it makes them
Scripts == <<"data_transform.py", "train.py", "eval.py">>

\* The exit statuses a script may end with; 0 is success
ExitCodes == 0..MaxExit

\* The main block before its first call: pc is where it is ("main" between
\* two calls, "running" inside subprocess.run, "exited" in run_script with
\* the child's status, "done" after the last call, "aborted" after an
\* exception left it), next is the call it makes next
NotStarted ==
    [pc |-> "main", next |-> 1, started |-> <<>>, finished |-> <<>>,
     returncode |-> 0, stdout |-> <<>>]

\* subprocess.run(["python", script_name], check=True) starts the child
StartScript ==
    /\ pipeline.pc = "main"
    /\ pipeline.next <= Len(Scripts)
    /\ pipeline' = [pipeline EXCEPT !.pc = "running",
                                    !.started = Append(@, Scripts[pipeline.next])]
    /\ UNCHANGED <<app_vars, upload>>

\* subprocess.run cannot start the interpreter: the OSError is no
\* CalledProcessError, leaves run_script and ends the main block
LaunchFails ==
    /\ pipeline.pc = "main"
    /\ pipeline.next <= Len(Scripts)
    /\ pipeline' = [pipeline EXCEPT !.pc = "aborted"]
    /\ UNCHANGED <<app_vars, upload>>

\* The child ends; subprocess.run has waited for it
ScriptExits ==
    /\ pipeline.pc = "running"
    /\ \E code \in ExitCodes :
          pipeline' = [pipeline EXCEPT !.pc = "exited",
                                      !.finished = Append(@, Scripts[pipeline.next]),
                                      !.returncode = code]
    /\ UNCHANGED <<app_vars, upload>>

\* What run_script prints for the status of the child
Printed(script, code) ==
    IF code = 0 THEN <<"Successfully executed ", script>>
    ELSE <<"Error executing ", script, ": ", "exit status ", ToString(code)>>

\* run_script calling the same script again after a failure
ReportExit_Retrying ==
    /\ pipeline.pc = "exited"
    /\ pipeline' =
          [pipeline EXCEPT
             !.stdout = Append(@, Printed(Scripts[pipeline.next], pipeline.returncode)),
             !.next = IF pipeline.returncode = 0 THEN @ + 1 ELSE @,
             !.pc = IF pipeline.returncode = 0 /\ pipeline.next = Len(Scripts)
                    THEN "done" ELSE "main"]
    /\ UNCHANGED <<app_vars, upload>>

\* run_script letting the CalledProcessError out after reporting it: the
\* main block ends at the first script that fails
ReportExit_Stopping ==
    /\ pipeline.pc = "exited"
    /\ pipeline' =
          [pipeline EXCEPT
             !.stdout = Append(@, Printed(Scripts[pipeline.next], pipeline.returncode)),
             !.next = @ + 1,
             !.pc = IF pipeline.returncode # 0 THEN "aborted"
                    ELSE IF pipeline.next = Len(Scripts) THEN "done" ELSE "main"]
    /\ UNCHANGED <<app_vars, upload>>

\* run_script prints the outcome (check=True raises CalledProcessError for a
\* status other than 0, which the except clause reports) and returns; the
\* main block goes on to its next call
ReportExit ==
    /\ pipeline.pc = "exited"
    /\ pipeline' =
          [pipeline EXCEPT
             !.stdout = Append(@, Printed(Scripts[pipeline.next], pipeline.returncode)),
             !.next = @ + 1,
             !.pc = IF pipeline.next = Len(Scripts) THEN "done" ELSE "main"]
    /\ UNCHANGED <<app_vars, upload>>

InitPipeline ==
    /\ pipeline = NotStarted
    /\ upload = NoUpload
    /\ semantic_model = Missing
    /\ chat_history = <<>>
    /\ conversation_context = <<>>
    /\ clock = 0
    /\ op = "init"
    /\ user_input = <<>>
    /\ verified_sql = None
    /\ resp = NotSent
    /\ response = NotCalled
    /\ requests = <<>>
    /\ executed = <<>>
    /\ exception = "none"

NextPipeline == StartScript \/ LaunchFails \/ ScriptExits \/ ReportExit

SpecPipeline == InitPipeline /\ [][NextPipeline]_vars

InitUpload == InitPipeline

NextUpload == ChooseFile \/ UploadToStage \/ ProcessAudioFile \/ ClearProcessed

SpecUpload == InitUpload /\ [][NextUpload]_vars

-----------------------------------------------------------------------------
(* A chat session *)

VQ_FCR ==
    [name |-> "fcr_rate", question |-> <<"FCR", WS>>,
     synonyms |-> << <<"first", WS, "call">> >>, sql |-> <<WS, "SELECT 2", WS>>]
VQ_SENTIMENT ==
    [name |-> SENTINEL_NAME, question |-> <<"Sentiment", WS, "issue">>,
     synonyms |-> <<>>, sql |-> <<"SELECT 1">>]
VQ_NO_SQL ==
    [name |-> "fcr_rate", question |-> <<"fcr">>, synonyms |-> <<>>, sql |-> <<WS>>]

SessionModels ==
    { Missing, Unparseable, Loaded(<<VQ_FCR, VQ_SENTIMENT>>), Loaded(<<VQ_NO_SQL>>) }

\* What the user may have typed when Send is pressed
SessionTexts == { <<>>, <<WS>>, <<WS, "FCR", WS>> }

\* get_onboarding_questions(): one question contains both key phrases, the
\* others at most "issue"
get_onboarding_questions == { <<"sentiment", WS, "issue">>, <<"issue">> }

SessionResponses ==
    { Raised,
      Returned(500, StrContent(<<"timeout">>, Data("invalid", FALSE, NoMessage, <<>>))),
      Returned(HTTP_OK, DictContent(Reply(<<>>))),
      Returned(HTTP_OK, DictContent(Reply(<< TextBlock(<<"Which year?">>) >>))),
      Returned(HTTP_OK, DictContent(Reply(<< TextBlock(<<"Which year?">>),
                                             SuggestionsBlock(<<"a", "b">>) >>))),
      Returned(HTTP_OK, DictContent(Reply(<< TextBlock(<<"Here is the answer">>),
                                             SqlBlock(<<"SELECT 3">>) >>))),
      Returned(HTTP_OK, DictContent(Reply(<< SqlBlock(<<"SELECT 3">>),
                                             SuggestionsBlock(<<"c">>) >>))),
      Returned(HTTP_OK, DictContent(Reply(<< TextBlock(<<"Which year?">>),
                                             NumberAsSuggestions >>))) }

\* One call of execute_sql_query, as the session sees it
Execution(sql, outcome) ==
    [sql |-> sql, fault |-> outcome.fault, rows |-> execute_sql_query(outcome).rows]

\* The verified branch returning whatever the query gave
VerifiedReturns_AnyResult(v, outcome) == Truthy(v)

\* `if verified_sql:` ... `if len(df) > 0:` ... `return`
VerifiedReturns(v, outcome) == Truthy(v) /\ execute_sql_query(outcome).rows > 0

\* process_user_message(text), the user turn already added as s; the handler
\* stamps its assistant turns t.
ProcessUserMessage(s, text, t) ==
    LET v == try_match_verified_query(text, semantic_model) IN
    /\ user_input' = text
    /\ verified_sql' = v
    /\ \E first \in IF Truthy(v) THEN ExecOutcomes ELSE {NoSession} :
       \E plot_raises \in BOOLEAN :
          IF VerifiedReturns(v, first)
          THEN \* the verified query answers
               /\ LET s1 == VerifiedAnswer(s, text, v.val, first, plot_raises, t) IN
                  /\ chat_history' = s1.chat_history
                  /\ conversation_context' = s1.conversation_context
               /\ executed' = << Execution(v.val, first) >>
               /\ requests' = <<>>
               /\ resp' = NotSent
               /\ response' = NotCalled
               /\ exception' = "none"
          ELSE \* no verified query, or it returned no rows: the analyst is asked
               \E r \in IF SendsRequest(semantic_model)
                        THEN SessionResponses ELSE {NotSent} :
                 LET result == query_cortex_analyst_rest_api(semantic_model, r)
                     before == IF Truthy(v) THEN << Execution(v.val, first) >> ELSE <<>>
                     runs == ~IsError(result) /\ result.sql # <<>>
                 IN  \E outcome \in IF runs THEN ExecOutcomes ELSE {NoSession} :
                       /\ LET s1 == AnalystAnswer(s, text, result, outcome,
                                                  plot_raises, t) IN
                          /\ chat_history' = s1.chat_history
                          /\ conversation_context' = s1.conversation_context
                       /\ executed' =
                             IF runs
                             THEN Append(before, Execution(result.sql, outcome))
                             ELSE before
                       /\ requests' =
                             IF SendsRequest(semantic_model)
                             THEN << BuildMessages(text, s.conversation_context) >>
                             ELSE <<>>
                       /\ resp' = r
                       /\ response' = result
                       /\ exception' = IF JoinRaises(result) THEN "TypeError"
                                       ELSE "none"

\* The user turn added only when process_user_message is back, as it would
\* be if the handler of the next submission ran inside this one
Submit_UserTurnLate(text) ==
    \E t \in clock..MaxClock :
        /\ ProcessUserMessage(
              [chat_history |-> chat_history,
               conversation_context |-> conversation_context], text, t)
        /\ clock' = t

\* add_user_message(text); process_user_message(text).  The user turn is
\* stamped when the handler starts; the assistant turns are stamped after
\* the remote call and the queries, which may take the clock to t.
Submit(text) ==
    \E t \in clock..MaxClock :
        /\ ProcessUserMessage(
              [chat_history |-> add_user_message(chat_history, text, clock),
               conversation_context |-> conversation_context], text, t)
        /\ clock' = t

\* A handler that calls neither the matcher, the analyst nor the executor
NoCalls ==
    /\ verified_sql' = None
    /\ resp' = NotSent
    /\ response' = NotCalled
    /\ requests' = <<>>
    /\ executed' = <<>>
    /\ exception' = "none"

\* handle_chat_input: Send pressed with a question in the input field
Send ==
    /\ Len(chat_history) <= MaxHistory
    /\ \E raw \in SessionTexts :
          /\ strip(raw) # <<>>
          /\ Submit(strip(raw))
    /\ op' = "send"
    /\ UNCHANGED <<semantic_model, pipeline, upload>>

\* Send without the test of user_input.strip(): whatever is in the field is
\* submitted
SendBlank_Submitting ==
    /\ Len(chat_history) <= MaxHistory
    /\ \E raw \in SessionTexts :
          /\ strip(raw) = <<>>
          /\ Submit(raw)
    /\ op' = "warn"
    /\ UNCHANGED <<semantic_model, pipeline, upload>>

\* handle_chat_input: Send pressed with nothing to send ("Please enter a question.")
SendBlank ==
    /\ \E raw \in SessionTexts :
          /\ strip(raw) = <<>>
          /\ user_input' = raw
    /\ NoCalls
    /\ op' = "warn"
    /\ UNCHANGED <<semantic_model, chat_history, conversation_context, clock,
                   pipeline, upload>>

\* show_suggested_questions: a suggested question clicked
Suggest ==
    /\ Len(chat_history) <= MaxHistory
    /\ \E question \in get_onboarding_questions : Submit(question)
    /\ op' = "suggest"
    /\ UNCHANGED <<semantic_model, pipeline, upload>>

\* Clear emptying the transcript only
Clear_TranscriptOnly ==
    /\ chat_history # <<>>
    /\ chat_history' = <<>>
    /\ user_input' = <<>>
    /\ NoCalls
    /\ op' = "clear"
    /\ UNCHANGED <<semantic_model, conversation_context, clock, pipeline, upload>>

\* handle_chat_input: Clear pressed
Clear ==
    /\ chat_history # <<>>
    /\ chat_history' = <<>>
    /\ conversation_context' = <<>>
    /\ user_input' = <<>>
    /\ NoCalls
    /\ op' = "clear"
    /\ UNCHANGED <<semantic_model, clock, pipeline, upload>>

\* The five-minute cache of read_semantic_model_from_stage expires and the
\* stage is read again
Reload ==
    /\ \E m \in SessionModels \ {semantic_model} : semantic_model' = m
    /\ user_input' = <<>>
    /\ NoCalls
    /\ op' = "reload"
    /\ UNCHANGED <<chat_history, conversation_context, clock, pipeline, upload>>

Init ==
    /\ semantic_model \in SessionModels
    /\ chat_history = <<>>
    /\ conversation_context = <<>>
    /\ clock = 0
    /\ op = "init"
    /\ user_input = <<>>
    /\ verified_sql = None
    /\ resp = NotSent
    /\ response = NotCalled
    /\ requests = <<>>
    /\ executed = <<>>
    /\ exception = "none"
    /\ pipeline = NotStarted
    /\ upload = NoUpload

Next == Send \/ SendBlank \/ Suggest \/ Clear \/ Reload

Spec == Init /\ [][Next]_vars

-----------------------------------------------------------------------------
(* The matcher alone, on every catalog and text of the bounds *)

InitMatch ==
    /\ semantic_model \in SemanticModels
    /\ user_input \in Texts
    /\ chat_history = <<>>
    /\ conversation_context = <<>>
    /\ clock = 0
    /\ op = "init"
    /\ verified_sql = None
    /\ resp = NotSent
    /\ response = NotCalled
    /\ requests = <<>>
    /\ executed = <<>>
    /\ exception = "none"
    /\ pipeline = NotStarted
    /\ upload = NoUpload

Match ==
    /\ op = "init"
    /\ verified_sql' = try_match_verified_query(user_input, semantic_model)
    /\ op' = "match"
    /\ UNCHANGED <<semantic_model, chat_history, conversation_context, clock,
                   user_input, resp, response, requests, executed, exception,
                   pipeline, upload>>

SpecMatch == InitMatch /\ [][Match]_vars

-----------------------------------------------------------------------------
(* query_cortex_analyst_rest_api alone, on every response of the bounds *)

Histories ==
    { <<>>,
      update_conversation_context(<<>>, <<"fcr">>,
          [text |-> <<"Here is the answer">>, sql |-> <<"SELECT 3">>]) }

InitApi ==
    /\ semantic_model \in {Missing, Unparseable, Loaded(<<>>)}
    /\ user_input \in {<<"fcr">>, <<"issue">>}
    /\ conversation_context \in Histories
    /\ resp \in ApiResponses
    /\ chat_history = <<>>
    /\ clock = 0
    /\ op = "init"
    /\ verified_sql = None
    /\ response = NotCalled
    /\ requests = <<>>
    /\ executed = <<>>
    /\ exception = "none"
    /\ pipeline = NotStarted
    /\ upload = NoUpload

\* resp is the response the service gives when the request is sent
CallApi ==
    /\ op = "init"
    /\ response' = query_cortex_analyst_rest_api(semantic_model, resp)
    /\ requests' = IF SendsRequest(semantic_model)
                   THEN << BuildMessages(user_input, conversation_context) >>
                   ELSE <<>>
    /\ op' = "api"
    /\ UNCHANGED <<semantic_model, chat_history, conversation_context, clock,
                   user_input, verified_sql, resp, executed, exception,
                   pipeline, upload>>

SpecApi == InitApi /\ [][CallApi]_vars

-----------------------------------------------------------------------------
(* Properties of the matcher (SpecMatch) *)

\* The lower-cased, trimmed form of a text
Norm(text) == strip(lower(text))

IsPrefix(a, b) == Len(a) <= Len(b) /\ a = SubSeq(b, 1, Len(a))

Catalog == semantic_model.verified_queries
Matched == op = "match" /\ semantic_model.status = "loaded"

\* The text is entry i's question, or one of its synonyms, up to case and
\* surrounding whitespace
AsksQuestionOf(i) == Norm(user_input) = Norm(Catalog[i].question)
AsksSynonymOf(i) ==
    \E k \in 1..Len(Catalog[i].synonyms) :
        Norm(user_input) = Norm(Catalog[i].synonyms[k])
HasKeywords == In("sentiment", Norm(user_input)) /\ In("issue", Norm(user_input))
IsSentinel(i) == Catalog[i].name = SENTINEL_NAME

\* Entry i answers the text by one of the three rules
Answers(i) ==
    \/ AsksQuestionOf(i) /\ Norm(user_input) # <<>>
    \/ AsksSynonymOf(i)
    \/ HasKeywords /\ IsSentinel(i)

\* The first entry of the catalog, up to entry i, that answers the text
FirstAnswering(i) == CHOOSE j \in 1..i : Answers(j) /\ \A k \in 1..(j - 1) : ~Answers(k)

\* C1 as stated: a text equal to E's question, up to case and surrounding
\* whitespace, returns E's sql.
C1_Original ==
    Matched =>
        \A i \in DOMAIN Catalog :
            AsksQuestionOf(i) => verified_sql = Some(Catalog[i].sql)

\* C1 amended: a non-empty text equal to E's question, up to case and
\* surrounding whitespace, returns the trimmed sql of the first entry in
\* catalog order that answers the text by question, synonym or key phrases;
\* that entry is E unless an entry before E answers it.
C1_QuestionReturnsFirstAnswer ==
    Matched =>
        \A i \in DOMAIN Catalog :
            AsksQuestionOf(i) /\ Norm(user_input) # <<>> =>
                /\ verified_sql = Some(strip(Catalog[FirstAnswering(i)].sql))
                /\ (\A k \in 1..(i - 1) : ~Answers(k)) =>
                        verified_sql = Some(strip(Catalog[i].sql))

\* The second entry's question is asked in another case and with padding,
\* the first entry does not answer it, and the second entry's sql comes
\* back trimmed.
C1_Witness ==
    /\ Matched
    /\ Len(Catalog) = 2
    /\ AsksQuestionOf(2) /\ user_input # Catalog[2].question
    /\ ~Answers(1)
    /\ Catalog[1].sql # Catalog[2].sql
    /\ Catalog[2].sql # strip(Catalog[2].sql)
    /\ verified_sql = Some(strip(Catalog[2].sql))

\* C2 as stated: a text equal to a synonym of E, up to case and surrounding
\* whitespace, returns E's sql.
C2_Original ==
    Matched =>
        \A i \in DOMAIN Catalog :
            AsksSynonymOf(i) => verified_sql = Some(Catalog[i].sql)

\* C2 amended: a text equal to a synonym of E, up to case and surrounding
\* whitespace, returns the trimmed sql of the first entry in catalog order
\* that answers the text; that entry is E unless an entry before E answers it.
C2_SynonymReturnsFirstAnswer ==
    Matched =>
        \A i \in DOMAIN Catalog :
            AsksSynonymOf(i) =>
                /\ verified_sql = Some(strip(Catalog[FirstAnswering(i)].sql))
                /\ (\A k \in 1..(i - 1) : ~Answers(k)) =>
                        verified_sql = Some(strip(Catalog[i].sql))

\* A synonym of the second entry is typed, it is not that entry's question,
\* the first entry does not answer it, and the second entry's sql comes back.
C2_Witness ==
    /\ Matched
    /\ Len(Catalog) = 2
    /\ AsksSynonymOf(2) /\ ~AsksQuestionOf(2)
    /\ ~Answers(1)
    /\ Catalog[1].sql # Catalog[2].sql
    /\ verified_sql = Some(strip(Catalog[2].sql))

\* No question and no synonym of any entry is the text
NoLiteralMatch ==
    \A i \in DOMAIN Catalog : ~AsksQuestionOf(i) /\ ~AsksSynonymOf(i)

\* C8 as stated: a text with both key phrases that is no question and no
\* synonym returns the sql of the entry named sentiment_by_issue_type when
\* the catalog has one, and none when it has not.
C8_Original ==
    Matched /\ HasKeywords /\ NoLiteralMatch =>
        IF \E i \in DOMAIN Catalog : IsSentinel(i)
        THEN \E i \in DOMAIN Catalog :
                IsSentinel(i) /\ verified_sql = Some(Catalog[i].sql)
        ELSE verified_sql = None

\* C8 amended: such a text returns the trimmed sql of the first entry named
\* sentiment_by_issue_type when the catalog has one, and none when it has not.
C8_KeywordsReturnSentinel ==
    Matched /\ HasKeywords /\ NoLiteralMatch =>
        IF \E i \in DOMAIN Catalog : IsSentinel(i)
        THEN LET first == CHOOSE i \in DOMAIN Catalog :
                            IsSentinel(i) /\ \A k \in 1..(i - 1) : ~IsSentinel(k)
             IN  verified_sql = Some(strip(Catalog[first].sql))
        ELSE verified_sql = None

\* The key phrases pick the sentinel entry, which is the second of the catalog
C8_Witness ==
    /\ Matched /\ HasKeywords /\ NoLiteralMatch
    /\ Len(Catalog) = 2
    /\ ~IsSentinel(1) /\ IsSentinel(2)
    /\ Catalog[1].sql # Catalog[2].sql
    /\ verified_sql = Some(strip(Catalog[2].sql))

\* The key phrases find no sentinel entry in a catalog that has entries
C8_WitnessNone ==
    /\ Matched /\ HasKeywords /\ NoLiteralMatch
    /\ Catalog # <<>>
    /\ \A i \in DOMAIN Catalog : ~IsSentinel(i)
    /\ verified_sql = None

\* The first entry of the catalog among those of the set S
FirstOf(S) == CHOOSE i \in S : \A j \in S : i <= j

QuestionHits == {i \in DOMAIN Catalog : AsksQuestionOf(i) /\ Norm(user_input) # <<>>}
SynonymHits == {i \in DOMAIN Catalog : AsksSynonymOf(i)}
KeywordHits == {i \in DOMAIN Catalog : HasKeywords /\ IsSentinel(i)}

\* C16: the stages apply to the whole catalog in order: the first entry
\* whose question is the text answers; if there is none, the first entry
\* with a synonym that is the text; if there is none either, the entry the
\* key phrases pick; otherwise none.  (The sql is compared trimmed.)
C16_Original ==
    Matched =>
        verified_sql =
            IF QuestionHits # {} THEN Some(strip(Catalog[FirstOf(QuestionHits)].sql))
            ELSE IF SynonymHits # {} THEN Some(strip(Catalog[FirstOf(SynonymHits)].sql))
            ELSE IF KeywordHits # {} THEN Some(strip(Catalog[FirstOf(KeywordHits)].sql))
            ELSE None

\* The text is the question of the second entry and a synonym of the
\* first: the first entry's sql comes back
C16_SynonymBeforeQuestion ==
    /\ Matched
    /\ Len(Catalog) = 2
    /\ QuestionHits = {2}
    /\ SynonymHits = {1}
    /\ KeywordHits = {}
    /\ strip(Catalog[1].sql) # strip(Catalog[2].sql)
    /\ verified_sql = Some(strip(Catalog[1].sql))

\* The text is the question of the second entry and holds the key phrases;
\* the first entry is the sentinel and its sql comes back
C16_KeywordsBeforeQuestion ==
    /\ Matched
    /\ Len(Catalog) = 2
    /\ QuestionHits = {2}
    /\ SynonymHits = {}
    /\ KeywordHits = {1}
    /\ strip(Catalog[1].sql) # strip(Catalog[2].sql)
    /\ verified_sql = Some(strip(Catalog[1].sql))

-----------------------------------------------------------------------------
(* Properties of query_cortex_analyst_rest_api (SpecApi) *)

\* The request was sent and came back with a status other than 200
FailedStatus == op = "api" /\ requests # <<>> /\ ~resp.raised /\ resp.status # HTTP_OK

\* C10: on a response whose status is not 200 the function returns a result
\* whose only field is a non-empty error: it has no sql and no text.
C10_FailedStatusIsErrorOnly ==
    FailedStatus => DOMAIN response = {"error"} /\ response.error # <<>>

\* A 500 whose body would parse as a full answer with text and sql is
\* reported as an error
C10_Witness ==
    /\ FailedStatus
    /\ resp.content.type = "dict"
    /\ resp.content.parsed.message.has_content
    /\ \E i \in DOMAIN resp.content.parsed.message.content :
            resp.content.parsed.message.content[i].type = "sql"
    /\ DOMAIN response = {"error"}
    /\ response.error = <<"API request failed with status ", "500", ": ", "{...}">>

\* The call came back with a parsed answer: status 200 and a content list
Parsed == op = "api" /\ requests # <<>> /\ "error" \notin DOMAIN response
ContentList == resp.content.parsed.message.content

\* The positions of the blocks of one type in the content list
BlocksOfType(type) == {i \in DOMAIN ContentList : ContentList[i].type = type}
Max(S) == CHOOSE x \in S : \A y \in S : y <= x
LastOfType(type) == ContentList[Max(BlocksOfType(type))]

\* C11: the text of a parsed answer is the text of the last text block of
\* the content list and nothing of the text blocks before it; its sql is the
\* statement of the last sql block and its suggestions are those of the last
\* suggestions block; a field no block gives stays empty.
C11_LastBlockWins ==
    Parsed =>
        /\ response.text =
              IF BlocksOfType("text") = {} THEN <<>> ELSE LastOfType("text").text
        /\ response.sql =
              IF BlocksOfType("sql") = {} THEN <<>> ELSE LastOfType("sql").statement
        /\ response.suggestions =
              IF BlocksOfType("suggestions") = {} THEN <<>>
              ELSE LastOfType("suggestions").suggestions

\* Two different text blocks: the answer holds the text of the second
C11_Witness ==
    /\ Parsed
    /\ Len(ContentList) = 2
    /\ ContentList[1].type = "text" /\ ContentList[2].type = "text"
    /\ ContentList[1].text # ContentList[2].text
    /\ response.text = ContentList[2].text

\* Two different sql blocks: the answer holds the statement of the second
C11_WitnessSql ==
    /\ Parsed
    /\ Len(ContentList) = 2
    /\ ContentList[1].type = "sql" /\ ContentList[2].type = "sql"
    /\ ContentList[1].statement # ContentList[2].statement
    /\ response.sql = ContentList[2].statement

\* The request was sent and came back with status 200
Answered200 == op = "api" /\ requests # <<>> /\ ~resp.raised /\ resp.status = HTTP_OK
Body == resp.content.parsed

\* The body is raw text that does not parse
Unparsable == resp.content.type = "str" /\ Body.type = "invalid"
\* The body, parsed if it was text, is no mapping
NotMapping == ~Unparsable /\ (resp.content.type = "none" \/ Body.type # "dict")
\* The body is a mapping without message.content
ContentAbsent ==
    /\ ~Unparsable /\ ~NotMapping
    /\ ~Body.has_message \/ ~Body.message.has_content
\* The body has a message.content that is no list
ContentNoList ==
    /\ ~Unparsable /\ ~NotMapping
    /\ Body.has_message /\ Body.message.has_content /\ ~Body.message.is_list
Malformed == Unparsable \/ NotMapping \/ ContentAbsent \/ ContentNoList

\* The function returned a result: an error, or the five fields of an
\* answer (with the type of its suggestions)
ReturnedResult ==
    \/ DOMAIN response = {"error"}
    \/ DOMAIN response = {"text", "sql", "suggestions", "iterable",
                          "response_metadata", "warnings"}

\* C19 as stated: the function always returns; on a 200 whose body does not
\* parse, is no mapping or has no message.content list the result is an
\* error only, and the error is "Invalid response format" whenever
\* message.content is absent.
C19_Original ==
    /\ op = "api" => ReturnedResult
    /\ Answered200 /\ Malformed =>
          /\ DOMAIN response = {"error"} /\ response.error # <<>>
          /\ ContentAbsent =>
                response.error = <<"Invalid response format from Cortex Analyst">>

\* C19 amended: the function always returns; on such a 200 the result is an
\* error only; the error is "Invalid response format" when the body has no
\* message or its message is a mapping without content, and the "Unexpected
\* error calling Cortex Analyst API" of the outer handler when the message
\* is null.
C19_MalformedIsError ==
    /\ op = "api" => ReturnedResult
    /\ Answered200 /\ Malformed =>
          /\ DOMAIN response = {"error"} /\ response.error # <<>>
          /\ Unparsable => Head(response.error) = "Failed to parse JSON response: "
          /\ ContentAbsent =>
                response.error =
                    IF Body.has_message /\ ~Body.message.is_dict
                    THEN <<"Unexpected error calling Cortex Analyst API: ", "<exception>">>
                    ELSE <<"Invalid response format from Cortex Analyst">>

\* A 200 whose message is null: the TypeError is caught and reported
C19_Witness ==
    /\ Answered200
    /\ ContentAbsent
    /\ Body.has_message /\ ~Body.message.is_dict
    /\ response = Error(<<"Unexpected error calling Cortex Analyst API: ", "<exception>">>)

\* A 200 whose message is a mapping without content
C19_WitnessInvalidFormat ==
    /\ Answered200
    /\ ContentAbsent
    /\ Body.has_message /\ Body.message.is_dict
    /\ response = Error(<<"Invalid response format from Cortex Analyst">>)

-----------------------------------------------------------------------------
(* Properties of the pipeline (SpecPipeline) *)

\* The main block has ended, normally or by an exception
PipelineEnded == pipeline.pc \in {"done", "aborted"}

\* The scripts started so far are the first ones of the list in its order,
\* none of them twice
StartedInOrder == IsPrefix(pipeline.started, Scripts)

\* A script is started only when every script started before has ended
StartsAfterPrevious ==
    pipeline'.started # pipeline.started => pipeline.started = pipeline.finished

\* C15 as stated: the pipeline starts data_transform.py, train.py and
\* eval.py in this order, each exactly once and each only after the one
\* before has finished.
C15_Original ==
    /\ [](StartedInOrder /\ (PipelineEnded => pipeline.started = Scripts))
    /\ [][StartsAfterPrevious]_vars

\* C15 amended: the scripts are started in the order data_transform.py,
\* train.py, eval.py, each at most once and each only after the one before
\* has finished; when the main block ends normally each was started exactly
\* once and has finished; when the interpreter cannot be launched for a
\* script the main block ends there and the later scripts are never started.
C15_RunsInOrder ==
    /\ [](/\ StartedInOrder
          /\ pipeline.pc = "done" =>
                pipeline.started = Scripts /\ pipeline.finished = Scripts
          /\ pipeline.pc = "aborted" =>
                /\ pipeline.started = pipeline.finished
                /\ Len(pipeline.started) = pipeline.next - 1
                /\ Len(pipeline.started) < Len(Scripts))
    /\ [][StartsAfterPrevious]_vars
    /\ [][pipeline.pc = "aborted" => pipeline' = pipeline]_vars

\* The three scripts ran in order although the first two failed
C15_Witness ==
    /\ pipeline.pc = "done"
    /\ pipeline.started = Scripts
    /\ pipeline.finished = Scripts
    /\ Len(pipeline.stdout) = 3
    /\ pipeline.stdout[1][1] = "Error executing "
    /\ pipeline.stdout[2][1] = "Error executing "
    /\ pipeline.stdout[3] = <<"Successfully executed ", "eval.py">>

\* The interpreter could not be launched for train.py: eval.py never starts
C15_WitnessAborted ==
    /\ pipeline.pc = "aborted"
    /\ pipeline.started = <<"data_transform.py">>
    /\ pipeline.next = 2

-----------------------------------------------------------------------------
(* Properties of a chat session (Spec) *)

\* The last step was a submission: a question sent or a suggestion clicked
Handled == op \in {"send", "suggest"}

\* The matcher returned SQL (a string that is not empty)
ReturnedSql == ~verified_sql.is_none /\ verified_sql.val # <<>>

\* The analyst was asked: the function was called, the request was sent
AskedAnalyst == response # NotCalled
AnalystSucceeded == AskedAnalyst /\ "error" \notin DOMAIN response

Last(seq) == seq[Len(seq)]

\* C12: on a submission made while the semantic model is missing, empty or
\* unparseable, the matcher returns none (no exception leaves it), no
\* verified query is executed and query_cortex_analyst_rest_api is called;
\* an unparseable document is still sent to the service.
C12_NoCatalogFallsThrough ==
    Handled /\ semantic_model.status # "loaded" =>
        /\ verified_sql = None
        /\ AskedAnalyst
        /\ semantic_model.status = "unparseable" => Len(requests) = 1
        /\ \A i \in DOMAIN executed :
              AnalystSucceeded /\ executed[i].sql = response.sql

\* With an unparseable document the analyst answers and its SQL gives rows
C12_Witness ==
    /\ Handled /\ semantic_model.status = "unparseable"
    /\ verified_sql = None
    /\ AnalystSucceeded
    /\ Len(executed) = 1 /\ executed[1].rows > 0
    /\ response.suggestions = <<>>
    /\ Last(chat_history).sql = response.sql

\* With no document at all the submission ends in the error turn of the
\* function that could not read it
C12_WitnessMissing ==
    /\ Handled /\ semantic_model.status = "missing"
    /\ verified_sql = None
    /\ requests = <<>>
    /\ IsError(response)
    /\ Last(chat_history).content = <<"Error: ">> \o response.error

GrewByRoundTrip ==
    /\ Len(conversation_context') = Len(conversation_context) + 2
    /\ SubSeq(conversation_context', 1, Len(conversation_context)) = conversation_context
    /\ conversation_context'[Len(conversation_context) + 1].role = "user"
    /\ conversation_context'[Len(conversation_context) + 2].role = "analyst"

\* C5: every submission in which the analyst call succeeds appends exactly
\* two blocks, one user then one analyst, to the conversation context, with
\* or without SQL in the response, with or without rows from the SQL.
C5_Original ==
    [][Handled' /\ AnalystSucceeded' => GrewByRoundTrip]_vars

\* The analyst's SQL ran without a fault and returned no rows
AnalystSqlEmpty ==
    /\ AnalystSucceeded
    /\ response.sql # <<>>
    /\ Last(executed).sql = response.sql
    /\ Last(executed).fault = "none"
    /\ Last(executed).rows = 0

IsErrorTurn(m) == m.content # <<>> /\ Head(m.content) = "Error: "

\* C6: when the analyst returns SQL and its execution yields an empty table,
\* one "no data" assistant turn that is no error turn is appended after the
\* user turn, and the conversation context is still updated for the round-trip.
C6_Original ==
    [][Handled' /\ AnalystSqlEmpty' =>
          /\ Len(chat_history') >= Len(chat_history) + 2
          /\ LET m == chat_history'[Len(chat_history) + 2] IN
                /\ m.role = "assistant"
                /\ m.content = <<"No data found. Try rephrasing your question.">>
                /\ ~IsErrorTurn(m)
          /\ GrewByRoundTrip]_vars

\* str.splitlines(): the lines of a text
RECURSIVE SplitLines(_, _)
SplitLines(text, line) ==
    IF text = <<>> THEN <<line>>
    ELSE IF Head(text) = NL THEN <<line>> \o SplitLines(Tail(text), <<>>)
    ELSE SplitLines(Tail(text), Append(line, Head(text)))

\* The line expected of a turn, with the label L for a user turn
LineOf(msg, L) ==
    <<"[", ToString(msg.timestamp), "] ",
      IF msg.role = "user" THEN L ELSE "Assistant", ": ">> \o msg.content

\* C14: the export of a transcript has exactly one line per turn, in the
\* order of the turns, the line of a user turn being "[timestamp] User:
\* content" and the line of an assistant turn "[timestamp] Assistant: content".
C14_Original ==
    chat_history # <<>> =>
        SplitLines(conversation_text(chat_history), <<>>) =
            [k \in 1..Len(chat_history) |-> LineOf(chat_history[k], "User")]

\* The same with the label 'You' the code writes for a user turn
C14_OneLinePerTurnYou ==
    chat_history # <<>> =>
        SplitLines(conversation_text(chat_history), <<>>) =
            [k \in 1..Len(chat_history) |-> LineOf(chat_history[k], "You")]

\* A transcript without a suggestions turn is exported one line per turn
\* with the label 'You'
C14_ExportedAsYou ==
    /\ Len(chat_history) = 2
    /\ SplitLines(conversation_text(chat_history), <<>>) =
            [k \in 1..2 |-> LineOf(chat_history[k], "You")]
    /\ SplitLines(conversation_text(chat_history), <<>>)[1][4] = "You"

\* Some query of the submission faulted: its SQL raised, or no session opened
ExecutorFaulted == \E i \in DOMAIN executed : executed[i].fault # "none"

\* C13: a submission in which the data executor faults appends an assistant
\* error turn that is not the "no data" turn, and runs the faulting query
\* once only.
C13_Original ==
    [][Handled' /\ ExecutorFaulted' =>
          /\ \E k \in (Len(chat_history) + 2)..Len(chat_history') :
                /\ IsErrorTurn(chat_history'[k])
                /\ chat_history'[k].content #
                      <<"No data found. Try rephrasing your question.">>
          /\ \A i, j \in DOMAIN executed' :
                executed'[i].fault # "none" /\ executed'[i].sql = executed'[j].sql
                    => i = j]_vars

\* The analyst's SQL raises and the transcript shows the "no data" turn of
\* an empty result
C13_FaultShownAsNoData ==
    /\ Handled /\ AnalystSucceeded
    /\ response.suggestions = <<>>
    /\ executed # <<>>
    /\ Last(executed).sql = response.sql
    /\ Last(executed).fault = "sql_error"
    /\ Last(chat_history).content = <<"No data found. Try rephrasing your question.">>

\* The user block a request ends with
QuestionBlock(text) ==
    [role |-> "user", content |-> << [type |-> "text", text |-> text] >>]

\* C20: a submission sends at most one request; its messages are the blocks
\* the conversation context held when the submission began, all of them in
\* their order, followed by one user block with the question.  Building
\* them leaves the context alone: those blocks are still its first blocks
\* afterwards, and it is unchanged when the call ends in an error.
C20_RequestIsContextThenQuestion ==
    [][Handled' /\ requests' # <<>> =>
          /\ Len(requests') = 1
          /\ requests'[1] = conversation_context \o <<QuestionBlock(user_input')>>
          /\ IsPrefix(conversation_context, conversation_context')
          /\ "error" \in DOMAIN response' =>
                conversation_context' = conversation_context]_vars

\* The second question of a conversation is sent behind the two blocks of
\* the first round-trip, and the call fails: the context still holds them
C20_Witness ==
    /\ Handled
    /\ Len(requests) = 1
    /\ Len(requests[1]) = 3
    /\ SubSeq(requests[1], 1, 2) = conversation_context
    /\ requests[1][1].role = "user" /\ requests[1][2].role = "analyst"
    /\ requests[1][3] = QuestionBlock(user_input)
    /\ "error" \in DOMAIN response

\* The matcher missed and the analyst answered without SQL
MissThenNoSql == Handled /\ ~ReturnedSql /\ AnalystSucceeded /\ response.sql = <<>>

\* C17: when the matcher misses and the analyst answers without SQL, no
\* query is executed and the submission appends, after the user turn, one
\* assistant turn holding the response's text, or the default prompt when
\* the response has no text (a suggestions turn may follow).
C17_Original ==
    [][MissThenNoSql' =>
          /\ executed' = <<>>
          /\ Len(chat_history') =
                Len(chat_history) + 2 +
                    (IF response'.suggestions # <<>> /\ response'.iterable
                     THEN 1 ELSE 0)
          /\ LET m == chat_history'[Len(chat_history) + 2] IN
                /\ m.role = "assistant"
                /\ m.content =
                      IF response'.text # <<>> THEN response'.text
                      ELSE <<"Couldn't generate a query. Try being more specific.">>]_vars

\* The analyst answers with an empty content list: the assistant turn is empty
C17_EmptyTurn ==
    /\ MissThenNoSql
    /\ response.text = <<>> /\ response.suggestions = <<>>
    /\ executed = <<>>
    /\ Last(chat_history).role = "assistant"
    /\ Last(chat_history).content = <<>>

\* C18: after every submission, whatever the matcher, the analyst service
\* and the executor did, no exception has left process_user_message, the
\* submission has appended its user turn and at least one assistant turn,
\* and the next submission is accepted (while the transcript is within
\* MaxHistory).
C18_Original ==
    /\ [](Handled =>
            /\ exception = "none"
            /\ Len(chat_history) <= MaxHistory => ENABLED Suggest)
    /\ [][Handled' =>
            /\ Len(chat_history') >= Len(chat_history) + 2
            /\ chat_history'[Len(chat_history) + 2].role = "assistant"]_vars

\* The analyst's reply holds a number where the list of suggestions should
\* be: the text turn is appended, then the TypeError of the join leaves
\* process_user_message
C18_JoinRaised ==
    /\ Handled /\ AnalystSucceeded
    /\ response.suggestions = <<"1">> /\ ~response.iterable
    /\ exception = "TypeError"
    /\ Last(chat_history).content = response.text
    /\ Len(chat_history) <= MaxHistory => ENABLED Suggest

\* The matcher missed and the analyst call gave an error result
MissThenError == Handled /\ ~ReturnedSql /\ AskedAnalyst /\ "error" \in DOMAIN response

\* C7: when the matcher misses and the analyst call yields an error result,
\* the submission appends its user turn and exactly one assistant error
\* turn, runs no SQL and leaves the conversation context unchanged; a next
\* submission is accepted (while the transcript is within MaxHistory).
C7_ErrorTurnOnly ==
    /\ [](MissThenError =>
            /\ executed = <<>>
            /\ IsErrorTurn(Last(chat_history))
            /\ Last(chat_history).content = <<"Error: ">> \o response.error
            /\ Len(chat_history) <= MaxHistory => ENABLED Suggest)
    /\ [][MissThenError' =>
            /\ Len(chat_history') = Len(chat_history) + 2
            /\ SubSeq(chat_history', 1, Len(chat_history)) = chat_history
            /\ chat_history'[Len(chat_history) + 1].role = "user"
            /\ chat_history'[Len(chat_history) + 1].content = user_input'
            /\ chat_history'[Len(chat_history) + 2].role = "assistant"
            /\ conversation_context' = conversation_context]_vars

\* A second submission ends in the error turn of a timeout while the
\* context holds the round-trip of the first
C7_Witness ==
    /\ MissThenError
    /\ resp.status = 500
    /\ Len(conversation_context) = 2
    /\ Len(chat_history) = 4
    /\ Last(chat_history).content =
          <<"Error: ", "API request failed with status ", "500", ": ", "timeout">>

\* The suggestions a turn lists, in the order it lists them
Listed(content) == SelectSeq(content, LAMBDA c : c \notin {"Suggestions:", NL, "* "})

\* C9: when a successful analyst response carries a list of suggestions, the
\* transcript ends with the user turn, the primary assistant turn and one
\* further assistant turn that lists every suggestion in order; without SQL
\* the primary turn is a text-only turn holding the response's text.
C9_SuggestionsTurnFollowsPrimary ==
    Handled /\ AnalystSucceeded /\ response.suggestions # <<>> /\ response.iterable =>
        LET n == Len(chat_history) IN
        /\ n >= 3
        /\ chat_history[n - 2].role = "user"
        /\ chat_history[n - 2].content = user_input
        /\ chat_history[n - 1].role = "assistant"
        /\ Head(chat_history[n - 1].content \o <<"">>) # "Suggestions:"
        /\ response.sql = <<>> =>
              /\ DOMAIN chat_history[n - 1] = {"role", "content", "timestamp"}
              /\ chat_history[n - 1].content = response.text
        /\ DOMAIN chat_history[n] = {"role", "content", "timestamp"}
        /\ chat_history[n].role = "assistant"
        /\ Head(chat_history[n].content) = "Suggestions:"
        /\ Listed(chat_history[n].content) = response.suggestions

\* No SQL and the suggestions a, b: a text-only turn, then both suggestions
C9_Witness ==
    /\ Handled /\ AnalystSucceeded
    /\ response.sql = <<>>
    /\ response.suggestions = <<"a", "b">>
    /\ Len(chat_history) = 3
    /\ chat_history[2].content = <<"Which year?">>
    /\ chat_history[3].content = <<"Suggestions:", NL, "* ", "a", NL, "* ", "b">>

\* The analyst block update_conversation_context makes of a response
AnalystBlock(result) ==
    [role |-> "analyst",
     content |-> << [type |-> "text", text |-> result.text],
                    [type |-> "sql", statement |-> result.sql] >>]

\* C21: whenever a submission changes the conversation context, the new
\* context is the old one, block for block, followed by one user block whose
\* content is one text block with the user's text and one analyst block
\* whose content is a text block with response.text, then a sql block with
\* response.sql.
C21_AppendsUserThenAnalyst ==
    [][conversation_context' # conversation_context /\ Handled' =>
          /\ AnalystSucceeded'
          /\ conversation_context' =
                conversation_context \o
                    <<QuestionBlock(user_input'), AnalystBlock(response')>>]_vars

\* The second round-trip of a conversation: its two blocks follow the two
\* of the first
C21_Witness ==
    /\ Handled /\ AnalystSucceeded
    /\ Len(conversation_context) = 4
    /\ conversation_context[1].role = "user"
    /\ conversation_context[2].role = "analyst"
    /\ conversation_context[3] = QuestionBlock(user_input)
    /\ conversation_context[4] = AnalystBlock(response)
    /\ response.text = <<"Here is the answer">>
    /\ response.sql = <<"SELECT 3">>

\* C22: every step other than Clear leaves the turns the transcript holds
\* as they are and in their order, and adds turns at its end only.
C22_TranscriptAppendOnly ==
    [][op' # "clear" => IsPrefix(chat_history, chat_history')]_vars

\* A second submission added its turns behind those of the first, which
\* asked something else
C22_Witness ==
    /\ Handled
    /\ Len(chat_history) >= 4
    /\ chat_history[1].role = "user"
    /\ \E k \in 3..Len(chat_history) :
          /\ chat_history[k].role = "user"
          /\ chat_history[k].content = user_input
          /\ chat_history[k].content # chat_history[1].content

\* C23: after Clear the transcript and the conversation context are both
\* empty, and the request of the next submission holds the question only;
\* no step other than Clear takes the transcript or the context from
\* non-empty to empty.
C23_ClearEmptiesBoth ==
    /\ [](op = "clear" => chat_history = <<>> /\ conversation_context = <<>>)
    /\ [][op = "clear" /\ Handled' /\ requests' # <<>> =>
              requests' = << <<QuestionBlock(user_input')>> >>]_vars
    /\ [][op' # "clear" =>
              /\ chat_history # <<>> => chat_history' # <<>>
              /\ conversation_context # <<>> => conversation_context' # <<>>]_vars

\* Clear was pressed after a submission that took the clock forward
C23_Witness ==
    /\ op = "clear"
    /\ clock > 0
    /\ chat_history = <<>>
    /\ conversation_context = <<>>

\* The stamps of the turns never go back along the transcript
StampsInOrder ==
    \A i, j \in DOMAIN chat_history :
        i < j => chat_history[i].timestamp <= chat_history[j].timestamp

RoleAt(i) == IF i % 2 = 1 THEN "user" ELSE "analyst"

\* The number of user turns of a transcript
UserTurns(history) ==
    Cardinality({ i \in DOMAIN history : history[i].role = "user" })

\* C25: in every reachable state the context has even length, its blocks
\* alternate user, analyst, user, analyst from a user block on, and it is
\* never longer than twice the number of user turns of the transcript.
C25_ContextAlternates ==
    /\ Len(conversation_context) % 2 = 0
    /\ \A i \in DOMAIN conversation_context :
          conversation_context[i].role = RoleAt(i)
    /\ Len(conversation_context) <= 2 * UserTurns(chat_history)

\* One round trip in the context after two submissions: the second one
\* added its turns to the transcript and nothing to the context
C25_Witness ==
    /\ Handled
    /\ Len(conversation_context) = 2
    /\ UserTurns(chat_history) = 2
    /\ conversation_context[1].role = "user"
    /\ conversation_context[2].role = "analyst"

\* The turns a step put behind the turns that were there
Appended == SubSeq(chat_history', Len(chat_history) + 1, Len(chat_history'))

\* C26: an accepted submission appends one user turn, then one or two
\* assistant turns, the second only as the suggestions turn of the reply;
\* so a transcript with turns starts with a user turn and has no two user
\* turns in a row.
C26_UserThenAssistantTurns ==
    /\ [](chat_history # <<>> => chat_history[1].role = "user")
    /\ [](\A i \in DOMAIN chat_history :
            i > 1 /\ chat_history[i].role = "user" =>
                chat_history[i - 1].role = "assistant")
    /\ [][Handled' =>
            /\ IsPrefix(chat_history, chat_history')
            /\ Len(Appended) \in {2, 3}
            /\ Appended[1].role = "user"
            /\ \A k \in 2..Len(Appended) : Appended[k].role = "assistant"
            /\ Len(Appended) = 3 =>
                  /\ AskedAnalyst'
                  /\ response'.suggestions # <<>>
                  /\ Appended[3].content =
                        SuggestionsContent(response'.suggestions)]_vars

\* A submission answered in two assistant turns after one answered in one
C26_Witness ==
    /\ Handled
    /\ Len(chat_history) = 5
    /\ chat_history[1].role = "user"
    /\ chat_history[2].role = "assistant"
    /\ chat_history[3].role = "user"
    /\ chat_history[4].role = "assistant"
    /\ chat_history[5].role = "assistant"
    /\ chat_history[5].content = SuggestionsContent(response.suggestions)

\* C27: Send pressed with an empty or an all-blank input leaves the
\* transcript and the context as they were, and calls neither the matcher,
\* nor the analyst, nor the executor.
C27_BlankSendChangesNothing ==
    [][op' = "warn" =>
            /\ strip(user_input') = <<>>
            /\ chat_history' = chat_history
            /\ conversation_context' = conversation_context
            /\ verified_sql' = None
            /\ resp' = NotSent
            /\ response' = NotCalled
            /\ requests' = <<>>
            /\ executed' = <<>>]_vars

\* Send pressed on blanks in a session that has turns and context
C27_Witness ==
    /\ op = "warn"
    /\ user_input = <<WS>>
    /\ Len(chat_history) = 2
    /\ Len(conversation_context) = 2

\* C28: a script that exits with a status other than 0 does not stop the
\* pipeline: run_script reports the failure and returns, and the main block
\* goes on to its next call just as after a success, so that a main block
\* that made all its calls has started every script, whatever their
\* statuses; no exit status ends the main block early.
C28_FailureDoesNotStop ==
    /\ [][pipeline.pc = "exited" =>
            /\ pipeline'.pc = IF pipeline.next = Len(Scripts) THEN "done" ELSE "main"
            /\ pipeline'.next = pipeline.next + 1
            /\ pipeline'.started = pipeline.started
            /\ pipeline'.stdout =
                  Append(pipeline.stdout,
                         Printed(Scripts[pipeline.next], pipeline.returncode))]_vars
    /\ [][pipeline'.pc = "aborted" => pipeline.pc \in {"main", "aborted"}]_vars
    /\ [](pipeline.pc = "done" => pipeline.started = Scripts)

\* data_transform.py failed, and train.py and eval.py were started after it
C28_Witness ==
    /\ pipeline.pc = "done"
    /\ pipeline.started = Scripts
    /\ pipeline.stdout[1] = Printed("data_transform.py", 1)
    /\ pipeline.stdout[2] = Printed("train.py", 0)
    /\ pipeline.stdout[3] = Printed("eval.py", 0)

-----------------------------------------------------------------------------
(* Properties of the audio upload flow *)

\* C29 as stated: upload_audio_file_to_stage returns a (success, path) pair
\* on every path, so the Upload handler never fails and ends with
\* upload_completed true after a success and false after a failure.
C29_Original ==
    upload.handler = "upload" =>
        /\ upload.returned.is_pair
        /\ upload.exception = "none"
        /\ upload.upload_completed = upload.returned.success

\* No session: the bare False cannot be unpacked, the handler is left by a
\* TypeError and upload_completed is still true from the upload before
C29_UnpackRaised ==
    /\ upload.handler = "upload"
    /\ ~upload.returned.is_pair
    /\ upload.exception = "TypeError"
    /\ upload.upload_completed

\* With a session the handler does as stated: a pair comes back, nothing is
\* raised, and upload_completed is the success of the upload
C29_PairWithSession ==
    upload.handler = "upload" /\ upload.exception = "none" =>
        /\ upload.returned.is_pair
        /\ upload.upload_completed = upload.returned.success
        /\ upload.returned.success =>
              /\ upload.uploaded_file_path = upload.returned.file_path
              /\ upload.uploaded_file_name = Some(upload.uploaded_file.name)

\* C30: Process is offered only when upload_completed is true and the path
\* and the name of the upload are set; a processing that succeeds sets
\* audio_processed and resets the three fields, after which Process is no
\* longer offered; one that fails leaves the three fields as they were, and
\* Process is offered again.
C30_ProcessNeedsCompletedUpload ==
    /\ [](ProcessOffered(upload) =>
            /\ upload.upload_completed
            /\ ~upload.uploaded_file_path.is_none
            /\ ~upload.uploaded_file_name.is_none)
    /\ [][upload'.handler = "process" =>
            /\ ProcessOffered(upload)
            /\ IF upload'.proc_success
               THEN /\ upload'.audio_processed
                    /\ upload'.processed_file_name = upload.uploaded_file_name
                    /\ upload'.uploaded_file_path = None
                    /\ upload'.uploaded_file_name = None
                    /\ ~upload'.upload_completed
                    /\ ~ProcessOffered(upload')
               ELSE /\ upload'.uploaded_file_path = upload.uploaded_file_path
                    /\ upload'.uploaded_file_name = upload.uploaded_file_name
                    /\ upload'.upload_completed = upload.upload_completed
                    /\ upload'.audio_processed = upload.audio_processed
                    /\ ProcessOffered(upload')]_vars

\* An upload processed with success: it is gone from the session state
C30_Witness ==
    /\ upload.handler = "process"
    /\ upload.proc_success
    /\ upload.audio_processed
    /\ upload.processed_file_name = Some(<<"visit", ".", "WAV">>)
    /\ upload.uploaded_file_path = None
    /\ ~upload.upload_completed

\* A processing that failed: the upload is still there to be processed
C30_WitnessFailed ==
    /\ upload.handler = "process"
    /\ ~upload.proc_success
    /\ upload.upload_completed
    /\ ProcessOffered(upload)

====
